---- MODULE Spec2Model ----
(***************************************************************************)
(* A model of the boids simulation of src/src/main.rs: the fixed-update    *)
(* chain flocking_system -> velocity_system -> movement_system, the chunk  *)
(* tasks flocking_system spawns on the compute task pool, the DvEvent      *)
(* queue between the systems, and the kd-tree the rule evaluation queries. *)
(*                                                                         *)
(* Numbers.  Every f32 of the program is a fixed-point integer counting    *)
(* 1/Scale units, so 2.0 is 200 and 0.05 is 5.  An expression of the       *)
(* program is evaluated exactly and rounded once, to the nearest grid      *)
(* step, where the program stores it.  A vector carries a flag nan: the    *)
(* program's arithmetic makes both components NaN at once (0 * inf in the  *)
(* speed clamp), and every later sum with a NaN vector is NaN.             *)
(***************************************************************************)
EXTENDS Integers, Sequences, FiniteSets, TLC

\* ---------------------------------------------------------------- bounds
MaxBoids == 3
MaxThreads == 3
MaxTicks == 2

\* ------------------------------------------------------------- constants
Scale == 100
WINDOW_BOUNDS == [w |-> 800, h |-> 400]
NEIGHBOR_CAP == 100
BOID_BOUNDARY_SIZE == 150
BOID_VIS_RANGE == 40
BOID_PROT_RANGE == 8
BOID_FOV == 120
BOID_MIN_SPEED == 2
BOID_MAX_SPEED == 4
VIS_RANGE_SQ == (BOID_VIS_RANGE * Scale) * (BOID_VIS_RANGE * Scale)
PROT_RANGE_SQ == (BOID_PROT_RANGE * Scale) * (BOID_PROT_RANGE * Scale)
\* factors as fractions <<numerator, denominator>>
BOID_CENTER_FACTOR == <<5, 10000>>
BOID_MATCHING_FACTOR == <<5, 100>>
BOID_AVOID_FACTOR == <<5, 100>>
BOID_TURN_FACTOR == <<2, 10>>
BOID_MOUSE_CHASE_FACTOR == <<5, 10000>>

\* ------------------------------------------------------------ arithmetic
Abs(a) == IF a < 0 THEN -a ELSE a

\* a / b rounded to the nearest integer (b > 0), halves away from zero
RoundDiv(a, b) ==
    IF a >= 0 THEN (2 * a + b) \div (2 * b) ELSE -((2 * (-a) + b) \div (2 * b))

RECURSIVE GCD(_, _)
GCD(a, b) == IF b = 0 THEN a ELSE GCD(b, a % b)

RECURSIVE SqrtSearch(_, _, _)
\* the largest r in lo..hi with r * r <= n
SqrtSearch(n, lo, hi) ==
    IF lo >= hi THEN lo
    ELSE LET mid == (lo + hi + 1) \div 2
         IN  IF mid * mid <= n THEN SqrtSearch(n, mid, hi)
             ELSE SqrtSearch(n, lo, mid - 1)

\* sqrt(n) rounded to the nearest integer
Sqrt(n) ==
    LET bound == IF n < 46340 THEN n ELSE 46340
        r == SqrtSearch(n, 0, bound)
    IN  IF n - r * r > r THEN r + 1 ELSE r

RECURSIVE FracLess(_, _, _, _)
\* a / b < c / d for a, c >= 0 and b, d > 0, without forming a product
FracLess(a, b, c, d) ==
    LET qa == a \div b
        qc == c \div d
        ra == a % b
        rc == c % d
    IN  IF qa # qc THEN qa < qc
        ELSE IF rc = 0 THEN FALSE
        ELSE IF ra = 0 THEN TRUE
        ELSE FracLess(d, rc, b, ra)

\* a * a < b * c and a * a > b * c for naturals, exactly
SquareLess(a, b, c) ==
    IF b = 0 \/ c = 0 THEN FALSE
    ELSE IF a = 0 THEN TRUE
    ELSE FracLess(a, b, c, a)
SquareMore(a, b, c) ==
    IF a = 0 THEN FALSE
    ELSE IF b = 0 \/ c = 0 THEN TRUE
    ELSE FracLess(c, a, a, b)

\* --------------------------------------------------------------- vectors
Vec(x, y) == [x |-> x, y |-> y, nan |-> FALSE]
NaNVec == [x |-> 0, y |-> 0, nan |-> TRUE]
ZeroVec == Vec(0, 0)
IsZero(v) == ~v.nan /\ v.x = 0 /\ v.y = 0

VAdd(a, b) == IF a.nan \/ b.nan THEN NaNVec ELSE Vec(a.x + b.x, a.y + b.y)
VSub(a, b) == IF a.nan \/ b.nan THEN NaNVec ELSE Vec(a.x - b.x, a.y - b.y)
VNeg(a) == IF a.nan THEN NaNVec ELSE Vec(-a.x, -a.y)

\* v * num / den, each component rounded once
VScale(v, num, den) ==
    IF v.nan THEN NaNVec ELSE Vec(RoundDiv(v.x * num, den), RoundDiv(v.y * num, den))

Dot(a, b) == a.x * b.x + a.y * b.y
Cross(a, b) == a.x * b.y - a.y * b.x
LengthSq(v) == v.x * v.x + v.y * v.y
\* Vec2::length
Length(v) == Sqrt(LengthSq(v))

\* the same direction: b is a positive multiple of a
SameDirection(a, b) ==
    /\ ~a.nan /\ ~b.nan
    /\ Cross(a, b) = 0
    /\ Dot(a, b) > 0

\* ---------------------------------------------------------------- angles
(* An angle, and the rotation about Z by it, is the primitive integer      *)
(* vector pointing that way; atan2(0, 0) is 0, the direction of +X, and    *)
(* the angle of a NaN vector is NaN.                                       *)
Primitive(v) ==
    LET g == GCD(Abs(v.x), Abs(v.y))
    IN  Vec((IF v.x < 0 THEN -1 ELSE 1) * (Abs(v.x) \div g),
            (IF v.y < 0 THEN -1 ELSE 1) * (Abs(v.y) \div g))

AngleZero == Vec(1, 0)

angle_towards(a, b) ==
    LET dir == VSub(b, a)
    IN  IF dir.nan THEN NaNVec
        ELSE IF IsZero(dir) THEN AngleZero
        ELSE Primitive(dir)

\* twice the cosine of the angles the model compares against
TwiceCos(deg) == CASE deg = 60 -> 1 [] deg = 90 -> 0 [] deg = 120 -> -1

\* the angle between the directions f and d is greater than deg degrees:
\* 2 cos < TwiceCos(deg), that is 2 * Dot < TwiceCos(deg) * |f| * |d|
AngleExceeds(f, d, deg) ==
    LET c == TwiceCos(deg)
        dot == Dot(f, d)
        a == 2 * Abs(dot)
    IN  CASE c < 0 -> dot < 0 /\ SquareMore(a, LengthSq(f), LengthSq(d))
          [] c = 0 -> dot < 0
          [] c > 0 -> dot <= 0 \/ SquareLess(a, LengthSq(f), LengthSq(d))

\* Quat::angle_between(rotation, from_rotation_arc_2d(X, dir)) > BOID_FOV;
\* a comparison with NaN is false
AngleBetweenExceedsFov(rotation, dir) ==
    IF rotation.nan THEN FALSE ELSE AngleExceeds(rotation, dir, BOID_FOV)

\* ------------------------------------------------------- rule evaluation
(* st is the Agent Store: a function from the live identities to records   *)
(* [pos, vel, rot].  tr is the kd-tree: a set of entries [id, pos].        *)

NoContribution ==
    [away |-> ZeroVec, position |-> ZeroVec, velocity |-> ZeroVec,
     close |-> 0, neighbors |-> 0]

\* kdtree.k_nearest_neighbour(p, k): the identities of the k entries
\* nearest to p, all of them when the tree holds no more than k
KNearest(tr, p, k) ==
    IF Cardinality(tr) <= k THEN {e.id : e \in tr}
    ELSE LET key(e) == LengthSq(VSub(e.pos, p))
             nearer(e, f) == key(e) < key(f) \/ (key(e) = key(f) /\ e.id < f.id)
             pick == CHOOSE S \in SUBSET tr :
                        /\ Cardinality(S) = k
                        /\ \A e \in S, f \in tr \ S : nearer(e, f)
         IN  {e.id : e \in pick}

\* boid_query.get(entity) is Ok
Resolves(st, id) == id \in DOMAIN st

\* Don't evaluate boids behind: the candidate is skipped by the cone filter
FovSkips(rotation, vec_to) ==
    IF vec_to.nan \/ IsZero(vec_to) THEN FALSE   \* try_normalize gives None
    ELSE AngleBetweenExceedsFov(rotation, vec_to)

\* Don't evaluate boids out of range
\* (dist_sq > VIS_RANGE_SQ; a component beyond the range decides it before
\* the squares are formed)
RangeSkips(vec_to) ==
    /\ ~vec_to.nan
    /\ \/ Abs(vec_to.x) > BOID_VIS_RANGE * Scale
       \/ Abs(vec_to.y) > BOID_VIS_RANGE * Scale
       \/ LengthSq(vec_to) > VIS_RANGE_SQ

\* dist_sq < PROT_RANGE_SQ, evaluated for a candidate in visible range
InProtectedRange(vec_to) ==
    ~vec_to.nan /\ ~RangeSkips(vec_to) /\ LengthSq(vec_to) < PROT_RANGE_SQ

\* a loop body that adds the direction to a close candidate (+= for -=)
ContributionTowards(st, boid, other) ==
    LET vec_to == VSub(st[other].pos, st[boid].pos)
    IN  IF boid = other THEN NoContribution
        ELSE IF RangeSkips(vec_to) THEN NoContribution
        ELSE IF FovSkips(st[boid].rot, vec_to) THEN NoContribution
        ELSE IF InProtectedRange(vec_to)
             THEN [NoContribution EXCEPT !.away = vec_to, !.close = 1]
             ELSE [NoContribution EXCEPT !.position = vec_to,
                                         !.velocity = st[other].vel,
                                         !.neighbors = 1]

\* what one pass of the loop body adds to the accumulators for candidate
\* other, which resolves
Contribution(st, boid, other) ==
    LET vec_to == VSub(st[other].pos, st[boid].pos)
    IN  IF boid = other THEN NoContribution
        ELSE IF RangeSkips(vec_to) THEN NoContribution
        ELSE IF FovSkips(st[boid].rot, vec_to) THEN NoContribution
        ELSE IF InProtectedRange(vec_to)
             THEN [NoContribution EXCEPT !.away = VNeg(vec_to), !.close = 1]
             ELSE [NoContribution EXCEPT !.position = vec_to,
                                         !.velocity = st[other].vel,
                                         !.neighbors = 1]

RECURSIVE Scan(_, _, _)
\* the accumulators after the loop over the candidates
Scan(st, boid, cands) ==
    IF cands = {} THEN NoContribution
    ELSE LET other == CHOOSE c \in cands : TRUE
             c == Contribution(st, boid, other)
             r == Scan(st, boid, cands \ {other})
         IN  [away |-> VAdd(r.away, c.away),
              position |-> VAdd(r.position, c.position),
              velocity |-> VAdd(r.velocity, c.velocity),
              close |-> r.close + c.close,
              neighbors |-> r.neighbors + c.neighbors]

\* sum / count * factor
Averaged(sum, count, factor) == VScale(sum, factor[1], count * factor[2])

\* the delta from the accumulators and the cursor (a set of at most one
\* world point: cursor_position and viewport_to_world_2d may both fail)
DeltaOf(acc, pos, cur) ==
    LET d1 == IF acc.neighbors > 0
              THEN VAdd(Averaged(acc.position, acc.neighbors, BOID_CENTER_FACTOR),
                        Averaged(acc.velocity, acc.neighbors, BOID_MATCHING_FACTOR))
              ELSE ZeroVec
        d2 == IF acc.close > 0
              THEN VAdd(d1, Averaged(acc.away, acc.close, BOID_AVOID_FACTOR))
              ELSE d1
    IN  IF cur = {} THEN d2
        ELSE LET c_world == CHOOSE c \in cur : TRUE
             IN  VAdd(d2, Averaged(VSub(c_world, pos), 1, BOID_MOUSE_CHASE_FACTOR))

\* the candidates the index returns for boid
Candidates(st, tr, boid) == KNearest(tr, st[boid].pos, NEIGHBOR_CAP)

\* a candidate fails to resolve: the let-else of the loop reaches todo!()
LookupFails(st, tr, boid) == \E id \in Candidates(st, tr, boid) : ~Resolves(st, id)

flocking_dv(st, tr, cur, boid) ==
    DeltaOf(Scan(st, boid, Candidates(st, tr, boid)), st[boid].pos, cur)

\* ------------------------------------------------------------ integrator
\* (res - BOID_BOUNDARY_SIZE) / 2.
HalfExtent(size) == ((size - BOID_BOUNDARY_SIZE) * Scale) \div 2

TurnStep == (BOID_TURN_FACTOR[1] * Scale) \div BOID_TURN_FACTOR[2]
MinSpeed == BOID_MIN_SPEED * Scale
MaxSpeed == BOID_MAX_SPEED * Scale

\* steering that starts at the edge itself (<= and >= for < and >)
SteerAxisFromEdge(vc, pc_, ext) ==
    vc + (IF pc_ <= -ext THEN TurnStep ELSE 0) - (IF pc_ >= ext THEN TurnStep ELSE 0)

\* Steer back into visible region, one axis
SteerAxis(vc, pc_, ext) ==
    vc + (IF pc_ < -ext THEN TurnStep ELSE 0) - (IF pc_ > ext THEN TurnStep ELSE 0)

Steer(v, p, res) ==
    IF v.nan THEN NaNVec
    ELSE IF p.nan THEN v
    ELSE Vec(SteerAxis(v.x, p.x, HalfExtent(res.w)),
             SteerAxis(v.y, p.y, HalfExtent(res.h)))

\* velocity.0 *= target / speed
Rescale(v, target, speed) ==
    IF v.nan THEN NaNVec
    ELSE IF speed = 0 THEN NaNVec   \* target / 0. is inf, and 0. * inf is NaN
    ELSE Vec(RoundDiv(v.x * target, speed), RoundDiv(v.y * target, speed))

\* a clamp whose upper branch rescales to the minimum speed
ClampSpeedToMin(v) ==
    IF v.nan THEN NaNVec
    ELSE LET speed == Length(v)
             lo == IF speed < MinSpeed THEN Rescale(v, MinSpeed, speed) ELSE v
         IN  IF speed > MaxSpeed THEN Rescale(lo, MinSpeed, speed) ELSE lo

\* Clamp speed
ClampSpeed(v) ==
    IF v.nan THEN NaNVec
    ELSE LET speed == Length(v)
             lo == IF speed < MinSpeed THEN Rescale(v, MinSpeed, speed) ELSE v
         IN  IF speed > MaxSpeed THEN Rescale(lo, MaxSpeed, speed) ELSE lo

NoLocals ==
    [seen |-> FALSE, pos |-> ZeroVec, applied |-> ZeroVec, steered |-> ZeroVec,
     out |-> ZeroVec]

\* the body of velocity_system's loop for one event: the values the
\* velocity takes on the way
Integrate(agent, dv, res) ==
    LET applied == VAdd(agent.vel, dv)
        steered == Steer(applied, agent.pos, res)
    IN  [seen |-> TRUE, pos |-> agent.pos, applied |-> applied,
         steered |-> steered, out |-> ClampSpeed(steered)]

\* a reader that forgets its position reads every buffered event again
UnreadFromStart(evs, cursor_) == evs

\* events.read(): the events the reader has not read yet
Unread(evs, cursor_) == SubSeq(evs, cursor_ + 1, Len(evs))

RECURSIVE ApplyEvents(_, _, _)
\* the loop of velocity_system over evs, on store st with window res
ApplyEvents(st, evs, res) ==
    IF evs = <<>> THEN st
    ELSE LET e == Head(evs)
             r == Integrate(st[e.boid], e.dv, res)
         IN  ApplyEvents([st EXCEPT ![e.boid].vel = r.out], Tail(evs), res)

RECURSIVE LocalsOf(_, _, _, _)
\* the loop's values for each agent, as of its last event
LocalsOf(st, evs, res, loc) ==
    IF evs = <<>> THEN loc
    ELSE LET e == Head(evs)
             r == Integrate(st[e.boid], e.dv, res)
         IN  LocalsOf([st EXCEPT ![e.boid].vel = r.out], Tail(evs), res,
                      [loc EXCEPT ![e.boid] = r])

\* movement_system, for one agent
Move(agent) ==
    [pos |-> VAdd(agent.pos, agent.vel),
     vel |-> agent.vel,
     rot |-> angle_towards(ZeroVec, agent.vel)]

\* ------------------------------------------------------- batch scheduler
DivCeil(a, b) == (a + b - 1) \div b
Min(a, b) == IF a < b THEN a ELSE b

\* boids.len().div_ceil(pool.thread_num())
BoidsPerThread(n, t) == DivCeil(n, t)

\* chunks_exact(k) in place of chunks(k): the short last chunk is dropped
ChunksExact(s, k) ==
    [i \in 1..(Len(s) \div k) |-> SubSeq(s, (i - 1) * k + 1, i * k)]

\* boids.chunks(k), k > 0
Chunks(s, k) ==
    [i \in 1..DivCeil(Len(s), k) |-> SubSeq(s, (i - 1) * k + 1, Min(i * k, Len(s)))]

RECURSIVE Flatten(_)
Flatten(ss) == IF ss = <<>> THEN <<>> ELSE Head(ss) \o Flatten(Tail(ss))

\* ----------------------------------------------------------------- state
VARIABLES
    store,      \* Agent Store: identity -> [pos, vel, rot]
    tree,       \* the kd-tree's entries [id, pos], as of its last rebuild
    threads,    \* ComputeTaskPool::get().thread_num()
    cursor,     \* the cursor's world point this tick, or none: a set
    pc,         \* "idle", "flocking", "velocity", "movement", "panicked"
    tasks,      \* the chunk tasks of the scope: [chunk, next, batch, last],
                \* last holding flocking_dv's accumulators at its latest return
    events,     \* Events<DvEvent>: every event sent, in order
    read,       \* velocity_system's EventReader: how many events it has read
    tick,       \* fixed updates completed
    panic,      \* where the program panicked, "" while it has not
    vlocals,    \* velocity_system's values for each agent, latest pass
    snapshot,   \* history: the store and event count when the tick began
    applied     \* history: identity -> deltas applied to it so far

vars == <<store, tree, threads, cursor, pc, tasks, events, read, tick, panic,
          vlocals, snapshot, applied>>

Boids == DOMAIN store
\* boid_query.iter().collect(): the live identities in query order
BoidList == [i \in 1..Cardinality(DOMAIN store) |-> i]

\* the spawn points the model draws from (setup places boid i at the i-th
\* Halton point scaled by the window's resolution at startup)
SpawnPoints ==
    << Vec(32000, 0), Vec(32400, 0), Vec(32000, 400), Vec(32500, 2000),
       Vec(32600, 12600) >>
\* Velocity::random(): both components in -1.0 .. 1.0
SpawnVelocities == { Vec(0, 0), Vec(-30, 40) }
\* the world points the cursor may project to
CursorPoints == { Vec(0, 0) }

NoEval == [boid |-> 0, acc |-> NoContribution, dv |-> ZeroVec]

Increasing(f) == \A i, j \in DOMAIN f : i < j => f[i] < f[j]

\* setup: every boid at its spawn point, unrotated, with a random velocity;
\* the kd-tree has not been built yet
Init ==
    /\ \E n \in 1..MaxBoids :
       \E place \in [1..n -> 1..Len(SpawnPoints)] :
       \E v \in [1..n -> SpawnVelocities] :
          /\ Increasing(place)
          /\ store = [i \in 1..n |->
                        [pos |-> SpawnPoints[place[i]], vel |-> v[i], rot |-> AngleZero]]
    /\ tree = {}
    /\ threads \in 1..MaxThreads
    /\ cursor = {}
    /\ pc = "idle"
    /\ tasks = <<>>
    /\ events = <<>>
    /\ read = 0
    /\ tick = 0
    /\ panic = ""
    /\ vlocals = [i \in DOMAIN store |-> NoLocals]
    /\ snapshot = [store |-> store, base |-> 0]
    /\ applied = [i \in DOMAIN store |-> 0]

\* --------------------------------------------------------------- actions
\* AutomaticUpdate<Boid>: the index is rebuilt from the tracked entities on
\* its own timer, between fixed updates.  The index is an external
\* structure whose items carry an optional identity that the caller must
\* resolve; withStale adds one entry whose identity does not resolve.
RebuildIndex ==
    /\ pc = "idle"
    /\ \E withStale \in BOOLEAN :
          tree' = {[id |-> i, pos |-> store[i].pos] : i \in Boids}
                  \cup (IF withStale THEN {[id |-> 0, pos |-> store[1].pos]} ELSE {})
    /\ UNCHANGED <<store, threads, cursor, pc, tasks, events, read, tick, panic,
                   vlocals, snapshot, applied>>

\* flocking_system up to the spawning of the chunk tasks
FlockingStart ==
    /\ pc = "idle"
    /\ tick < MaxTicks
    /\ \E cur \in {{}} \cup {{c} : c \in CursorPoints} : cursor' = cur
    /\ LET boids == BoidList
           boids_per_thread == BoidsPerThread(Len(boids), threads)
       IN  IF boids_per_thread = 0
           THEN \* chunks(0): "chunk size must be non-zero"
                /\ pc' = "panicked"
                /\ panic' = "chunks"
                /\ UNCHANGED tasks
           ELSE /\ pc' = "flocking"
                /\ tasks' = [c \in DOMAIN Chunks(boids, boids_per_thread) |->
                               [chunk |-> Chunks(boids, boids_per_thread)[c],
                                next |-> 1, batch |-> <<>>, last |-> NoEval]]
                /\ UNCHANGED panic
    /\ snapshot' = [store |-> store, base |-> Len(events)]
    /\ UNCHANGED <<store, tree, threads, events, read, tick, vlocals, applied>>

\* one pass of a chunk task's loop: flocking_dv for its next boid
TaskStep(c) ==
    /\ pc = "flocking"
    /\ c \in DOMAIN tasks
    /\ tasks[c].next <= Len(tasks[c].chunk)
    /\ LET boid == tasks[c].chunk[tasks[c].next]
       IN  IF LookupFails(store, tree, boid)
           THEN \* todo!() in flocking_dv
                /\ pc' = "panicked"
                /\ panic' = "flocking_dv"
                /\ UNCHANGED tasks
           ELSE LET dv == flocking_dv(store, tree, cursor, boid)
                    acc == Scan(store, boid, Candidates(store, tree, boid))
                IN  /\ tasks' = [tasks EXCEPT
                                   ![c].next = @ + 1,
                                   ![c].batch = Append(@, [boid |-> boid, dv |-> dv]),
                                   ![c].last = [boid |-> boid, acc |-> acc, dv |-> dv]]
                    /\ UNCHANGED <<pc, panic>>
    /\ UNCHANGED <<store, tree, threads, cursor, events, read, tick, vlocals,
                   snapshot, applied>>

\* a scope that returns as soon as one task has returned
AnyTaskReturned == \E c \in DOMAIN tasks : tasks[c].next > Len(tasks[c].chunk)

\* pool.scope returns: every task has returned its batch
FlockingReturned == \A c \in DOMAIN tasks : tasks[c].next > Len(tasks[c].chunk)

\* the batches are sent in spawn order
FlockingJoin ==
    /\ pc = "flocking"
    /\ FlockingReturned
    /\ events' = events \o Flatten([c \in DOMAIN tasks |-> tasks[c].batch])
    /\ pc' = "velocity"
    /\ UNCHANGED <<store, tree, threads, cursor, tasks, read, tick, panic, vlocals,
                   snapshot, applied>>

CountOf(evs, id) == Cardinality({i \in DOMAIN evs : evs[i].boid = id})

velocity_system ==
    /\ pc = "velocity"
    /\ LET pending == Unread(events, read)
       IN  IF \E i \in DOMAIN pending : ~Resolves(store, pending[i].boid)
           THEN \* todo!() in velocity_system
                /\ pc' = "panicked"
                /\ panic' = "velocity_system"
                /\ UNCHANGED <<store, vlocals, applied, read>>
           ELSE /\ store' = ApplyEvents(store, pending, WINDOW_BOUNDS)
                /\ vlocals' = LocalsOf(store, pending, WINDOW_BOUNDS, vlocals)
                /\ applied' = [i \in Boids |-> applied[i] + CountOf(pending, i)]
                /\ read' = Len(events)
                /\ pc' = "movement"
                /\ UNCHANGED panic
    /\ UNCHANGED <<tree, threads, cursor, tasks, events, tick, snapshot>>

movement_system ==
    /\ pc = "movement"
    /\ store' = [i \in Boids |-> Move(store[i])]
    /\ pc' = "idle"
    /\ tick' = tick + 1
    /\ UNCHANGED <<tree, threads, cursor, tasks, events, read, panic, vlocals,
                   snapshot, applied>>

Next ==
    \/ RebuildIndex
    \/ FlockingStart
    \/ \E c \in 1..MaxThreads : TaskStep(c)
    \/ FlockingJoin
    \/ velocity_system
    \/ movement_system

Spec == Init /\ [][Next]_vars

\* -------------------------------------------------- a run already under way
(* The state at a later tick boundary: every speed within the clamp's      *)
(* bounds, every orientation the angle of the velocity, the index built,   *)
(* no event unread.  The integrator's cases that the first two ticks after *)
(* spawn cannot reach (a speed above the maximum, an agent beyond the left *)
(* edge) are reached from here.                                            *)
RunPoints ==
    << Vec(-32600, 0), Vec(32000, 0), Vec(32500, 2000), Vec(32600, 12600) >>
RunVelocities == { Vec(200, 0), Vec(400, 0), Vec(-180, 240) }

InitRun ==
    /\ \E n \in 1..(MaxBoids - 1) :
       \E place \in [1..n -> 1..Len(RunPoints)] :
       \E v \in [1..n -> RunVelocities] :
          /\ Increasing(place)
          /\ store = [i \in 1..n |->
                        [pos |-> RunPoints[place[i]], vel |-> v[i],
                         rot |-> angle_towards(ZeroVec, v[i])]]
    /\ tree = {[id |-> i, pos |-> store[i].pos] : i \in DOMAIN store}
    /\ threads \in 1..MaxThreads
    /\ cursor = {}
    /\ pc = "idle"
    /\ tasks = <<>>
    /\ events = <<>>
    /\ read = 0
    /\ tick = 0
    /\ panic = ""
    /\ vlocals = [i \in DOMAIN store |-> NoLocals]
    /\ snapshot = [store |-> store, base |-> 0]
    /\ applied = [i \in DOMAIN store |-> 0]

SpecRun == InitRun /\ [][Next]_vars

\* ================================================================ claims
TickEvents == SubSeq(events, snapshot.base + 1, Len(events))
AllTasksReturned == \A c \in DOMAIN tasks : tasks[c].next > Len(tasks[c].chunk)
Running == pc \in {"flocking", "velocity", "movement"}

\* C1: a stale identity is never fatal: when the index returns an identity
\* that does not resolve, flocking_dv skips it and the tick completes, and
\* velocity_system skips a delta whose identity does not resolve.
C1_StaleIdentityIsSkipped ==
    ~(pc = "panicked" /\ panic \in {"flocking_dv", "velocity_system"})

\* C2: in the speed clamp a velocity of magnitude exactly zero is not
\* rescaled by division: it stays the zero vector.
C2_ZeroVelocityStaysZero ==
    \A b \in Boids :
        (vlocals[b].seen /\ IsZero(vlocals[b].steered)) => IsZero(vlocals[b].out)

\* C3: the cone filter skips a candidate exactly when the angle between the
\* agent's forward direction and the direction to the candidate exceeds half
\* the field of view (60 degrees); a coincident candidate is never skipped.
C3_ConeIsHalfFieldOfView ==
    pc = "flocking" =>
        \A a, b \in Boids :
            LET vec_to == VSub(store[b].pos, store[a].pos)
            IN  (/\ a # b
                 /\ b \in Candidates(store, tree, a)
                 /\ ~vec_to.nan /\ ~store[a].rot.nan
                 /\ ~RangeSkips(vec_to)) =>
                    (FovSkips(store[a].rot, vec_to)
                        <=> (~IsZero(vec_to)
                             /\ AngleExceeds(store[a].rot, vec_to, BOID_FOV \div 2)))

\* C4: at spawn and at every tick boundary each agent's orientation is the
\* angle of its velocity.
C4_OrientationIsVelocityAngle ==
    pc = "idle" =>
        \A b \in Boids : store[b].rot = angle_towards(ZeroVec, store[b].vel)

\* C5: the read phase and the write phase of a tick never overlap: the store
\* is the tick's initial store while any chunk task runs, the integrator
\* runs only after every task has returned, and every delta of the tick was
\* computed from the store as it was when the tick began.
C5_PhasesNeverOverlap ==
    /\ pc = "flocking" => store = snapshot.store
    /\ pc \in {"velocity", "movement"} => AllTasksReturned
    /\ Running =>
          \A c \in DOMAIN tasks : \A i \in DOMAIN tasks[c].batch :
              tasks[c].batch[i].dv =
                  flocking_dv(snapshot.store, tree, cursor, tasks[c].batch[i].boid)
    /\ pc \in {"velocity", "movement"} =>
          \A i \in DOMAIN TickEvents :
              TickEvents[i].dv =
                  flocking_dv(snapshot.store, tree, cursor, TickEvents[i].boid)

\* C5 witness: two chunk tasks have returned and the integrator has changed
\* the store
C5_Witness ==
    /\ pc = "movement"
    /\ Len(tasks) >= 2
    /\ store # snapshot.store
    /\ \E i \in DOMAIN TickEvents : ~IsZero(TickEvents[i].dv)

\* C6: chunks of size ceil(n / w) are at most w, and cover the agent list
\* once and in order; a tick emits exactly one delta per agent, and the
\* integrator applies each delta once, never again in a later tick.
C6_OneDeltaPerAgentPerTick ==
    /\ Running =>
          /\ Len(tasks) <= threads
          /\ Flatten([c \in DOMAIN tasks |-> tasks[c].chunk]) = BoidList
    /\ pc \in {"velocity", "movement"} =>
          /\ Len(TickEvents) = Cardinality(Boids)
          /\ \A b \in Boids : CountOf(TickEvents, b) = 1
    /\ pc \in {"idle", "flocking", "velocity"} => \A b \in Boids : applied[b] = tick
    /\ pc = "movement" => \A b \in Boids : applied[b] = tick + 1

\* C6 witness: the second tick of three agents on two threads (chunks of
\* two and one) has been integrated
C6_Witness ==
    /\ pc = "movement"
    /\ tick = 1
    /\ Cardinality(Boids) = 3
    /\ threads = 2
    /\ Len(tasks) = 2
    /\ read = 6

\* the deltas one worker computes: the single chunk of the whole list
SingleWorkerEvents ==
    LET chunk == Chunks(BoidList, BoidsPerThread(Len(BoidList), 1))[1]
    IN  {[boid |-> chunk[i], dv |-> flocking_dv(store, tree, cursor, chunk[i])] :
            i \in DOMAIN chunk}

\* C10: over the same store, index and cursor the set of (identity, delta)
\* pairs flocking_system sends is the one a single worker computes, for
\* every worker count.
C10_ChunkingInvariance ==
    pc = "velocity" => {TickEvents[i] : i \in DOMAIN TickEvents} = SingleWorkerEvents

\* C10 witness: three chunk tasks have sent deltas that differ by agent
C10_Witness ==
    /\ pc = "velocity"
    /\ Len(tasks) = 3
    /\ Cardinality({TickEvents[i].dv : i \in DOMAIN TickEvents}) = 3

\* the speed and the rescaled components are exact on the grid
ExactRescale(v, target) ==
    LET speed == Length(v)
    IN  /\ speed * speed = LengthSq(v)
        /\ speed > 0
        /\ (v.x * target) % speed = 0
        /\ (v.y * target) % speed = 0

\* C7: after the clamp of a nonzero speed the speed lies within the bounds:
\* a speed below the minimum becomes exactly the minimum, one above the
\* maximum exactly the maximum, one within the bounds is unchanged, and the
\* direction is kept.  (Where the rescaled vector is not on the grid the
\* model rounds it, as f32 does; exactness is stated where it is on it.)
C7_SpeedClamped ==
    \A b \in Boids :
        LET s == vlocals[b].steered
            o == vlocals[b].out
        IN  (vlocals[b].seen /\ ~s.nan /\ ~IsZero(s)) =>
              /\ ~o.nan
              /\ (MinSpeed <= Length(s) /\ Length(s) <= MaxSpeed) => o = s
              /\ (Length(s) < MinSpeed /\ ExactRescale(s, MinSpeed)) =>
                    (LengthSq(o) = MinSpeed * MinSpeed /\ SameDirection(s, o))
              /\ (Length(s) > MaxSpeed /\ ExactRescale(s, MaxSpeed)) =>
                    (LengthSq(o) = MaxSpeed * MaxSpeed /\ SameDirection(s, o))
              /\ ExactRescale(s, MinSpeed) /\ ExactRescale(s, MaxSpeed) =>
                    (MinSpeed * MinSpeed <= LengthSq(o)
                        /\ LengthSq(o) <= MaxSpeed * MaxSpeed)
              /\ store[b].vel = o

\* C7 witness: one pass of the integrator has raised one agent's speed to
\* the minimum and lowered another's to the maximum
C7_Witness ==
    /\ pc = "movement"
    /\ \E a, b \in Boids :
          /\ vlocals[a].seen /\ vlocals[b].seen
          /\ ~vlocals[a].steered.nan /\ ~vlocals[b].steered.nan
          /\ 0 < Length(vlocals[a].steered) /\ Length(vlocals[a].steered) < MinSpeed
          /\ LengthSq(vlocals[a].out) = MinSpeed * MinSpeed
          /\ Length(vlocals[b].steered) > MaxSpeed
          /\ LengthSq(vlocals[b].out) = MaxSpeed * MaxSpeed

\* C8 as stated: for an agent whose coordinate equals the half-extent on an
\* axis, the integration step changes the velocity component on that axis
\* by exactly the turn factor toward the interior.
C8_SteeredAtTheEdge ==
    \A b \in Boids :
        LET l == vlocals[b]
        IN  (l.seen /\ ~l.applied.nan /\ ~l.pos.nan) =>
              /\ l.pos.x = HalfExtent(WINDOW_BOUNDS.w) => l.steered.x = l.applied.x - TurnStep
              /\ l.pos.x = -HalfExtent(WINDOW_BOUNDS.w) => l.steered.x = l.applied.x + TurnStep
              /\ l.pos.y = HalfExtent(WINDOW_BOUNDS.h) => l.steered.y = l.applied.y - TurnStep
              /\ l.pos.y = -HalfExtent(WINDOW_BOUNDS.h) => l.steered.y = l.applied.y + TurnStep

\* C8 as amended: for an agent whose coordinate lies strictly beyond the
\* half-extent on an axis, the steering step changes the delta-applied
\* velocity component on that axis by exactly the turn factor toward the
\* interior, before the speed clamp; at the half-extent itself and inside it
\* the component is not changed.
C8_SteeredBeyondTheEdge ==
    \A b \in Boids :
        LET l == vlocals[b]
            w == HalfExtent(WINDOW_BOUNDS.w)
            h == HalfExtent(WINDOW_BOUNDS.h)
        IN  (l.seen /\ ~l.applied.nan /\ ~l.pos.nan) =>
              /\ l.pos.x > w => l.steered.x = l.applied.x - TurnStep
              /\ l.pos.x < -w => l.steered.x = l.applied.x + TurnStep
              /\ (-w <= l.pos.x /\ l.pos.x <= w) => l.steered.x = l.applied.x
              /\ l.pos.y > h => l.steered.y = l.applied.y - TurnStep
              /\ l.pos.y < -h => l.steered.y = l.applied.y + TurnStep
              /\ (-h <= l.pos.y /\ l.pos.y <= h) => l.steered.y = l.applied.y

\* C8 witness: one pass of the integrator has steered an agent beyond the
\* left edge to the right, and one beyond the right and the top edge to the
\* left and down
C8_Witness ==
    /\ pc = "movement"
    /\ \E a, b \in Boids :
          /\ vlocals[a].seen /\ vlocals[b].seen
          /\ vlocals[a].pos.x < -HalfExtent(WINDOW_BOUNDS.w)
          /\ vlocals[a].steered.x = vlocals[a].applied.x + TurnStep
          /\ vlocals[b].pos.x > HalfExtent(WINDOW_BOUNDS.w)
          /\ vlocals[b].pos.y > HalfExtent(WINDOW_BOUNDS.h)
          /\ vlocals[b].steered = VAdd(vlocals[b].applied, Vec(-TurnStep, -TurnStep))

\* C9 as stated: every agent B within A's protected range adds to A's
\* separation sum a nonzero vector opposite to the direction from A to B,
\* and nothing to A's cohesion and alignment sums.
C9_EveryClosePairSeparates ==
    pc = "flocking" =>
        \A a, b \in Boids :
            LET vec_to == VSub(store[b].pos, store[a].pos)
                c == Contribution(store, a, b)
            IN  (/\ a # b
                 /\ b \in Candidates(store, tree, a)
                 /\ ~vec_to.nan
                 /\ LengthSq(vec_to) < PROT_RANGE_SQ) =>
                    /\ c.away = VNeg(vec_to) /\ ~IsZero(c.away) /\ c.close = 1
                    /\ IsZero(c.position) /\ IsZero(c.velocity) /\ c.neighbors = 0

\* the candidates of a that pass the filters and lie within protected range
CloseSet(a) ==
    {b \in Boids \cap Candidates(store, tree, a) :
        LET vec_to == VSub(store[b].pos, store[a].pos)
        IN  /\ a # b
            /\ ~vec_to.nan
            /\ ~RangeSkips(vec_to)
            /\ ~(~store[a].rot.nan /\ ~IsZero(vec_to)
                    /\ AngleExceeds(store[a].rot, vec_to, BOID_FOV))
            /\ LengthSq(vec_to) < PROT_RANGE_SQ}

\* C9 as amended: every candidate B of A that is not skipped by the cone
\* filter (not more than 120 degrees off A's forward direction) and lies
\* strictly within A's protected range adds the negated direction from A to
\* B to A's separation sum, a nonzero vector unless B coincides with A, and
\* nothing to A's cohesion and alignment sums; flocking_dv counts exactly
\* these candidates as close.
C9_VisibleClosePairSeparates ==
    pc = "flocking" =>
        /\ \A a \in Boids : \A b \in CloseSet(a) :
              LET vec_to == VSub(store[b].pos, store[a].pos)
                  c == Contribution(store, a, b)
              IN  /\ c.away = VNeg(vec_to) /\ c.close = 1
                  /\ IsZero(c.away) <=> IsZero(vec_to)
                  /\ IsZero(c.position) /\ IsZero(c.velocity) /\ c.neighbors = 0
        /\ \A t \in DOMAIN tasks :
              tasks[t].last.boid # 0 =>
                  tasks[t].last.acc.close = Cardinality(CloseSet(tasks[t].last.boid))

\* C9 witness: flocking_dv has returned for an agent with one close
\* candidate ahead of it, its separation sum pointing away from it
C9_Witness ==
    /\ pc = "flocking"
    /\ \E t \in DOMAIN tasks :
          LET a == tasks[t].last.boid
          IN  /\ a # 0
              /\ Cardinality(CloseSet(a)) = 1
              /\ \E b \in CloseSet(a) :
                    /\ tasks[t].last.acc.away = VSub(store[a].pos, store[b].pos)
                    /\ ~IsZero(tasks[t].last.acc.away)
                    /\ Dot(tasks[t].last.acc.away, VSub(store[b].pos, store[a].pos)) < 0

====
